---- MODULE Spec2Model ----
(***************************************************************************)
(* A model of the CHIP-8 interpreter of juhito/CHIP-8-Emulator: the class  *)
(* Emulator (tick, load, reset, fetch, execute) and the class Screen       *)
(* (drawPixel).  The engine's fields are the variables; tick(), load() and *)
(* reset() are the actions.  JavaScript's values are kept as the code      *)
(* computes them: typed arrays drop writes outside their range and read    *)
(* `undefined` there, Uint8Array/Uint16Array stores wrap, `undefined + n`  *)
(* is NaN and bitwise operators turn undefined/NaN into 0.                 *)
(*                                                                         *)
(* The source holds several revisions of both classes.  The model follows  *)
(* the latest: Emulator as in src/unnamed/part_000 lines 214-552 (fields   *)
(* without underscore, the `running` flag) and Screen as in                *)
(* src/src/screen.ts lines 1-37 (screen[y][x]).                            *)
(***************************************************************************)
EXTENDS Integers, Sequences, FiniteSets, TLC

VARIABLES memory, vreg, ireg, stack, sp, pc, dt, st, keys, screen, running,
          console, obs, snd, calls

vars == <<memory, vreg, ireg, stack, sp, pc, dt, st, keys, screen, running,
          console, obs, snd, calls>>

-----------------------------------------------------------------------------
(* utils/constants: the sizes and the font table the engine imports.       *)

ram_size == 4096
stack_size == 16
reg_size == 16
key_size == 16
screen_width == 64
screen_height == 32
font_size == 80

font_set ==
    << 240, 144, 144, 144, 240,    32,  96,  32,  32, 112,
       240,  16, 240, 128, 240,   240,  16, 240,  16, 240,
       144, 144, 240,  16,  16,   240, 128, 240,  16, 240,
       240, 128, 240, 144, 240,   240,  16,  32,  64,  64,
       240, 144, 240, 144, 240,   240, 144, 240,  16, 240,
       240, 144, 240, 144, 144,   224, 144, 224, 144, 224,
       240, 128, 128, 128, 240,   224, 144, 144, 144, 224,
       240, 128, 240, 128, 240,   240, 128, 240, 128, 128 >>

-----------------------------------------------------------------------------
(* JavaScript values.  pc is the one field that can hold a non-number: it  *)
(* is a natural number, or one of two marks no address ever equals.        *)

Undefined == -1
NaN == -2

IsNumber(v) == v >= 0

\* a + n in JavaScript: undefined + n and NaN + n are NaN.
JsAdd(a, n) == IF IsNumber(a) THEN a + n ELSE NaN

\* ToInt32 of a value a bitwise operator reads: undefined and NaN become 0.
ToInt32(v) == IF IsNumber(v) THEN v ELSE 0

\* The value a Uint8Array element keeps of a stored number (a difference may
\* be negative: it wraps), and of a value read outside an array (undefined).
ToUint8(v) == v % 256
ReadToUint8(v) == IF v = Undefined THEN 0 ELSE v % 256

\* The value a Uint16Array element keeps of a stored pc (NaN is stored as 0).
ToUint16(v) == IF IsNumber(v) THEN v % 65536 ELSE 0

\* typedArray[i]: undefined when i is no index of the array.
ReadAt(arr, size, i) == IF i \in 0..(size - 1) THEN arr[i] ELSE Undefined

\* typedArray[i] = v: dropped when i is no index of the array.
WriteU8(arr, size, i, v) ==
    IF i \in 0..(size - 1) THEN [arr EXCEPT ![i] = ToUint8(v)] ELSE arr
WriteU16(arr, size, i, v) ==
    IF i \in 0..(size - 1) THEN [arr EXCEPT ![i] = ToUint16(v)] ELSE arr

\* Bitwise operators on bytes, bit by bit.
RECURSIVE BitAnd(_, _)
BitAnd(a, b) ==
    IF a = 0 \/ b = 0 THEN 0
    ELSE (a % 2) * (b % 2) + 2 * BitAnd(a \div 2, b \div 2)

RECURSIVE BitOr(_, _)
BitOr(a, b) ==
    IF a = 0 THEN b ELSE IF b = 0 THEN a
    ELSE (IF a % 2 = 1 \/ b % 2 = 1 THEN 1 ELSE 0) + 2 * BitOr(a \div 2, b \div 2)

RECURSIVE BitXor(_, _)
BitXor(a, b) ==
    IF a = 0 THEN b ELSE IF b = 0 THEN a
    ELSE (((a % 2) + (b % 2)) % 2) + 2 * BitXor(a \div 2, b \div 2)

-----------------------------------------------------------------------------
(* class Screen                                                            *)

\* init_screen: 32 rows of 64 zeros.
init_screen == [i \in 0..31 |-> [j \in 0..63 |-> 0]]

\* drawPixel returning screen[y][x] without the `!`.
drawPixel_returns_lit(scr, x, y) ==
    LET after == [scr EXCEPT ![y][x] = BitXor(scr[y][x], 1)]
    IN  [screen |-> after, collided |-> (after[y][x] # 0)]

\* drawPixel with |= in the place of ^=.
drawPixel_sets(scr, x, y) ==
    LET after == [scr EXCEPT ![y][x] = BitOr(scr[y][x], 1)]
    IN  [screen |-> after, collided |-> (after[y][x] = 0)]

\* drawPixel(x, y): screen[y][x] ^= 1; returns !screen[y][x].
drawPixel(scr, x, y) ==
    LET after == [scr EXCEPT ![y][x] = BitXor(scr[y][x], 1)]
    IN  [screen |-> after, collided |-> (after[y][x] = 0)]

-----------------------------------------------------------------------------
(* class Emulator                                                          *)

\* The engine's fields as one record, read by the methods below.
Engine ==
    [memory |-> memory, vreg |-> vreg, ireg |-> ireg, stack |-> stack,
     sp |-> sp, pc |-> pc, dt |-> dt, st |-> st, keys |-> keys,
     screen |-> screen, running |-> running]

\* constructor: zeroed arrays, sp = 0, pc = 0x200, timers 0, a new Screen, the
\* font in the first 80 bytes of memory, running = true.
constructor ==
    [memory |-> [a \in 0..(ram_size - 1) |->
                    IF a < font_size THEN font_set[a + 1] ELSE 0],
     vreg |-> [r \in 0..(reg_size - 1) |-> 0],
     ireg |-> 0,
     stack |-> [i \in 0..(stack_size - 1) |-> 0],
     sp |-> 0,
     pc |-> 512,
     dt |-> 0,
     st |-> 0,
     keys |-> [k \in 0..(key_size - 1) |-> FALSE],
     screen |-> init_screen,
     running |-> TRUE]

\* reset(): the arrays reset() allocates, with the font loop applied to memory.
reset_memory ==
    [a \in 0..(ram_size - 1) |-> IF a < font_size THEN font_set[a + 1] ELSE 0]
reset_stack == [i \in 0..(stack_size - 1) |-> 0]
reset_vreg == [r \in 0..(reg_size - 1) |-> 0]
reset_keys == [k \in 0..(key_size - 1) |-> FALSE]

\* reset() without the new Screen.
reset_keeps_screen(e) ==
    [memory |-> reset_memory,
     vreg |-> reset_vreg,
     ireg |-> 0,
     stack |-> reset_stack,
     sp |-> 0,
     pc |-> 512,
     dt |-> 0,
     st |-> 0,
     keys |-> reset_keys,
     screen |-> e.screen,
     running |-> e.running]

\* reset(): every field but `running` is assigned anew.
reset(e) ==
    [memory |-> reset_memory,
     vreg |-> reset_vreg,
     ireg |-> 0,
     stack |-> reset_stack,
     sp |-> 0,
     pc |-> 512,
     dt |-> 0,
     st |-> 0,
     keys |-> reset_keys,
     screen |-> init_screen,
     running |-> e.running]

\* load(data): memory[pc + i] = data[i] for every i < data.length (a write
\* outside memory, or at NaN, is dropped).
load(e, data) ==
    LET written == IF IsNumber(e.pc)
                   THEN {a \in e.pc..(e.pc + Len(data) - 1) : a < ram_size}
                   ELSE {}
    IN  [e EXCEPT !.memory =
            [a \in written |-> ToUint8(data[a - e.pc + 1])] @@ e.memory]

\* fetch(): the two bytes at pc and pc + 1, high byte first; pc += 2.
fetch(e) ==
    LET first_byte == ReadAt(e.memory, ram_size, e.pc)
        second_byte == ReadAt(e.memory, ram_size, JsAdd(e.pc, 1))
    IN  [e |-> [e EXCEPT !.pc = JsAdd(e.pc, 2)],
         opcode |-> ToInt32(first_byte) * 256 + ToInt32(second_byte)]

\* The fields of an instruction word: x = (opcode & 0x0F00) >> 8,
\* y = (opcode & 0x00F0) >> 4, and the masks the cases use.
opX(opcode) == (opcode \div 256) % 16
opY(opcode) == (opcode \div 16) % 16
opN(opcode) == opcode % 16
opNN(opcode) == opcode % 256
opNNN(opcode) == opcode % 4096
opFamily(opcode) == opcode \div 4096

\* case 0x0000 without the `break` after the inner switch: control goes on into
\* case 0x1000.
execute0_falls_through(e, opcode) ==
    LET r == IF opNN(opcode) = 224 THEN [e EXCEPT !.screen = init_screen]
             ELSE IF opNN(opcode) = 238
             THEN [e EXCEPT !.pc = ReadAt(e.stack, stack_size, e.sp),
                            !.sp = e.sp - 1]
             ELSE e
    IN  [r EXCEPT !.pc = opNNN(opcode)]

\* case 0x0000 with a 00E0 that leaves the screen as it is.
execute0_keeps_screen(e, opcode) ==
    IF opNN(opcode) = 238
    THEN [e EXCEPT !.pc = ReadAt(e.stack, stack_size, e.sp), !.sp = e.sp - 1]
    ELSE e

\* case 0x0000: switch (opcode & 0x00FF): 00E0 makes a new Screen, 00EE sets
\* pc = stack[sp] and then decrements sp.
execute0(e, opcode) ==
    IF opNN(opcode) = 224 THEN [e EXCEPT !.screen = init_screen]
    ELSE IF opNN(opcode) = 238
    THEN [e EXCEPT !.pc = ReadAt(e.stack, stack_size, e.sp), !.sp = e.sp - 1]
    ELSE e

\* case 0x1000: pc = nnn.
execute1(e, opcode) == [e EXCEPT !.pc = opNNN(opcode)]

\* case 0x2000: sp++; stack[sp] = pc; pc = nnn.
execute2(e, opcode) ==
    [e EXCEPT !.sp = e.sp + 1,
              !.stack = WriteU16(e.stack, stack_size, e.sp + 1, e.pc),
              !.pc = opNNN(opcode)]

\* case 0x3000: skip when vreg[x] === nn.
execute3(e, opcode) ==
    IF e.vreg[opX(opcode)] = opNN(opcode) THEN [e EXCEPT !.pc = JsAdd(e.pc, 2)] ELSE e

\* case 0x4000: skip when vreg[x] !== nn.
execute4(e, opcode) ==
    IF e.vreg[opX(opcode)] # opNN(opcode) THEN [e EXCEPT !.pc = JsAdd(e.pc, 2)] ELSE e

\* case 0x5000: skip when vreg[x] === vreg[y] (the low nibble is not looked at).
execute5(e, opcode) ==
    IF e.vreg[opX(opcode)] = e.vreg[opY(opcode)]
    THEN [e EXCEPT !.pc = JsAdd(e.pc, 2)] ELSE e

\* case 0x6000 with += in the place of =.
execute6_adds(e, opcode) ==
    [e EXCEPT !.vreg[opX(opcode)] = ToUint8(e.vreg[opX(opcode)] + opNN(opcode))]

\* case 0x6000: vreg[x] = nn.
execute6(e, opcode) == [e EXCEPT !.vreg[opX(opcode)] = opNN(opcode)]

\* case 0x7000: vreg[x] += nn, kept as a byte.
execute7(e, opcode) ==
    [e EXCEPT !.vreg[opX(opcode)] = ToUint8(e.vreg[opX(opcode)] + opNN(opcode))]

\* case 0x8000 with an 8xy4 that takes its carry from the stored byte.
execute8_carry_from_byte(e, opcode) ==
    LET x == opX(opcode)
        y == opY(opcode)
        v == e.vreg
    IN  IF opN(opcode) = 4
        THEN LET sum == ToUint8(v[x] + v[y])
                 v1 == [v EXCEPT ![x] = sum]
                 v2 == [v1 EXCEPT ![15] = IF sum > 255 THEN 1 ELSE 0]
             IN  [e EXCEPT !.vreg = [v2 EXCEPT ![x] = sum]]
        ELSE e

\* case 0x8000: switch (opcode & 0xF00F).  8xy5 and 8xy7 write their flag to
\* memory[0x000F]; the others write vreg[0x000F].
execute8(e, opcode) ==
    LET x == opX(opcode)
        y == opY(opcode)
        n == opN(opcode)
        v == e.vreg
    IN  CASE n = 0 -> [e EXCEPT !.vreg[x] = v[y]]
          [] n = 1 -> [e EXCEPT !.vreg[x] = BitOr(v[x], v[y])]
          [] n = 2 -> [e EXCEPT !.vreg[x] = BitAnd(v[x], v[y])]
          [] n = 3 -> [e EXCEPT !.vreg[x] = BitXor(v[x], v[y])]
          [] n = 4 ->
                \* let sum = (vreg[x] += vreg[y]); vreg[F] = 0;
                \* if (sum > 255) vreg[F] = 1; vreg[x] = sum;
                LET sum == v[x] + v[y]
                    v1 == [v EXCEPT ![x] = ToUint8(sum)]
                    v2 == [v1 EXCEPT ![15] = IF sum > 255 THEN 1 ELSE 0]
                IN  [e EXCEPT !.vreg = [v2 EXCEPT ![x] = ToUint8(sum)]]
          [] n = 5 ->
                [e EXCEPT !.memory = WriteU8(e.memory, ram_size, 15,
                                             IF v[x] > v[y] THEN 1 ELSE 0),
                          !.vreg[x] = ToUint8(v[x] - v[y])]
          [] n = 6 ->
                LET v1 == [v EXCEPT ![15] = v[x] % 2]
                IN  [e EXCEPT !.vreg = [v1 EXCEPT ![x] = v1[x] \div 2]]
          [] n = 7 ->
                [e EXCEPT !.memory = WriteU8(e.memory, ram_size, 15,
                                             IF v[x] < v[y] THEN 1 ELSE 0),
                          !.vreg[x] = ToUint8(v[y] - v[x])]
          [] n = 14 ->
                LET v1 == [v EXCEPT ![15] = BitAnd(v[x], 128)]
                IN  [e EXCEPT !.vreg = [v1 EXCEPT ![x] = ToUint8(v1[x] * 2)]]
          [] OTHER -> e

\* case 0x9000: skip when vreg[x] !== vreg[y].
execute9(e, opcode) ==
    IF e.vreg[opX(opcode)] # e.vreg[opY(opcode)]
    THEN [e EXCEPT !.pc = JsAdd(e.pc, 2)] ELSE e

\* case 0xA000: ireg = nnn.
executeA(e, opcode) == [e EXCEPT !.ireg = opNNN(opcode)]

\* case 0xB000: pc = nnn + vreg[0].
executeB(e, opcode) == [e EXCEPT !.pc = opNNN(opcode) + e.vreg[0]]

\* case 0xC000: vreg[x] = (Math.random() * 255) & nn.  rnd is the integer part
\* of Math.random() * 255, which the & takes: Math.random() < 1, so rnd <= 254.
RandomInts == 0..254
executeC(e, opcode, rnd) == [e EXCEPT !.vreg[opX(opcode)] = BitAnd(rnd, opNN(opcode))]

\* case 0xD000: the sprite loop.  Row i (i < height <= 15) and bit j (j < 8) go
\* to pixel ((xcoord + j) % 64, (ycoord + i) % 32), so one instruction visits a
\* pixel at most once and the loop's result is read off pixel by pixel: a
\* visited pixel whose sprite bit is set gets drawPixel's value, and vreg[F],
\* zeroed first, is 1 when a drawPixel call returned true.  A row read outside
\* memory is undefined, which has no set bit.
spriteBit(e, i, j) ==
    (ToInt32(ReadAt(e.memory, ram_size, e.ireg + i)) \div (2 ^ (7 - j))) % 2

\* case 0xD000 without the `vreg[0x000F] = 0` before the loop.
executeD_flag_not_cleared(e, opcode) ==
    LET x_coord == e.vreg[opX(opcode)]
        y_coord == e.vreg[opY(opcode)]
        height == opN(opcode)
        drawn == {p \in (0..(height - 1)) \X (0..7) : spriteBit(e, p[1], p[2]) = 1}
        at(p) == <<(x_coord + p[2]) % screen_width, (y_coord + p[1]) % screen_height>>
        rows == {at(p)[2] : p \in drawn}
        hit(xx, yy) == \E p \in drawn : at(p) = <<xx, yy>>
    IN  [e EXCEPT
            !.screen = [yy \in 0..31 |->
                          IF yy \in rows
                          THEN [xx \in 0..63 |->
                                  IF hit(xx, yy)
                                  THEN drawPixel(e.screen, xx, yy).screen[yy][xx]
                                  ELSE e.screen[yy][xx]]
                          ELSE e.screen[yy]],
            !.vreg[15] = IF \E p \in drawn :
                                drawPixel(e.screen, at(p)[1], at(p)[2]).collided
                         THEN 1 ELSE e.vreg[15]]

executeD(e, opcode) ==
    LET x_coord == e.vreg[opX(opcode)]
        y_coord == e.vreg[opY(opcode)]
        height == opN(opcode)
        drawn == {p \in (0..(height - 1)) \X (0..7) : spriteBit(e, p[1], p[2]) = 1}
        at(p) == <<(x_coord + p[2]) % screen_width, (y_coord + p[1]) % screen_height>>
        rows == {at(p)[2] : p \in drawn}
        hit(xx, yy) == \E p \in drawn : at(p) = <<xx, yy>>
    IN  [e EXCEPT
            !.screen = [yy \in 0..31 |->
                          IF yy \in rows
                          THEN [xx \in 0..63 |->
                                  IF hit(xx, yy)
                                  THEN drawPixel(e.screen, xx, yy).screen[yy][xx]
                                  ELSE e.screen[yy][xx]]
                          ELSE e.screen[yy]],
            !.vreg[15] = IF \E p \in drawn :
                                drawPixel(e.screen, at(p)[1], at(p)[2]).collided
                         THEN 1 ELSE 0]

\* keys[k] as a condition: an element outside the array is undefined, falsy.
keyAt(ks, k) == IF k \in 0..(key_size - 1) THEN ks[k] ELSE FALSE

\* case 0xE000 with the case labels 0x9E and 0xA1.
executeE_low_byte_labels(e, opcode) ==
    IF opNN(opcode) = 158
    THEN (IF keyAt(e.keys, e.vreg[opX(opcode)])
          THEN [e EXCEPT !.pc = JsAdd(e.pc, 2)] ELSE e)
    ELSE IF opNN(opcode) = 161
    THEN (IF ~keyAt(e.keys, e.vreg[opX(opcode)])
          THEN [e EXCEPT !.pc = JsAdd(e.pc, 2)] ELSE e)
    ELSE e

\* case 0xE000: switch (opcode & 0x00FF) with the cases 0xE09E and 0xE0A1.
executeE(e, opcode) ==
    IF opNN(opcode) = 57502
    THEN (IF keyAt(e.keys, e.vreg[opX(opcode)])
          THEN [e EXCEPT !.pc = JsAdd(e.pc, 2)] ELSE e)
    ELSE IF opNN(opcode) = 57505
    THEN (IF ~keyAt(e.keys, e.vreg[opX(opcode)])
          THEN [e EXCEPT !.pc = JsAdd(e.pc, 2)] ELSE e)
    ELSE e

\* Fx55 with the loop condition i < x.
storeRegs_exclusive(e, x) ==
    [a \in {b \in e.ireg..(e.ireg + x - 1) : b < ram_size} |-> e.vreg[a - e.ireg]]
        @@ e.memory

\* Fx55: memory[ireg + i] = vreg[i] for i = 0..x (the writes outside memory
\* are dropped).
storeRegs(e, x) ==
    [a \in {b \in e.ireg..(e.ireg + x) : b < ram_size} |-> e.vreg[a - e.ireg]]
        @@ e.memory

\* Fx65: vreg[i] = memory[ireg + i] for i = 0..x.
loadRegs(e, x) ==
    [r \in 0..(reg_size - 1) |->
        IF r <= x THEN ReadToUint8(ReadAt(e.memory, ram_size, e.ireg + r))
        ELSE e.vreg[r]]

\* case 0xF000 with the timers of Fx15 and Fx18 exchanged.
executeF_timers_swapped(e, opcode) ==
    LET x == opX(opcode)
        low == opNN(opcode)
        v == e.vreg[x]
    IN  CASE low = 21 -> [e EXCEPT !.st = v]
          [] low = 24 -> [e EXCEPT !.dt = v]
          [] OTHER -> e

\* case 0xF000: switch (opcode & 0xF0FF).
executeF(e, opcode) ==
    LET x == opX(opcode)
        low == opNN(opcode)
        v == e.vreg[x]
    IN  CASE low = 7 -> [e EXCEPT !.vreg[x] = ToUint8(e.dt)]
          [] low = 21 -> [e EXCEPT !.dt = v]
          [] low = 24 -> [e EXCEPT !.st = v]
          [] low = 30 -> [e EXCEPT !.ireg = e.ireg + v]
          [] low = 10 -> e
          [] low = 41 -> [e EXCEPT !.ireg = v * 5]
          [] low = 51 ->
                LET m1 == WriteU8(e.memory, ram_size, e.ireg, v \div 100)
                    m2 == WriteU8(m1, ram_size, e.ireg + 1, (v % 100) \div 10)
                IN  [e EXCEPT !.memory = WriteU8(m2, ram_size, e.ireg + 2, v % 10)]
          [] low = 85 -> [e EXCEPT !.memory = storeRegs(e, x)]
          [] low = 101 -> [e EXCEPT !.vreg = loadRegs(e, x)]
          [] OTHER -> e

\* execute(opcode): switch (opcode & 0xF000).
execute(e, opcode, rnd) ==
    CASE opFamily(opcode) = 0 -> execute0(e, opcode)
      [] opFamily(opcode) = 1 -> execute1(e, opcode)
      [] opFamily(opcode) = 2 -> execute2(e, opcode)
      [] opFamily(opcode) = 3 -> execute3(e, opcode)
      [] opFamily(opcode) = 4 -> execute4(e, opcode)
      [] opFamily(opcode) = 5 -> execute5(e, opcode)
      [] opFamily(opcode) = 6 -> execute6(e, opcode)
      [] opFamily(opcode) = 7 -> execute7(e, opcode)
      [] opFamily(opcode) = 8 -> execute8(e, opcode)
      [] opFamily(opcode) = 9 -> execute9(e, opcode)
      [] opFamily(opcode) = 10 -> executeA(e, opcode)
      [] opFamily(opcode) = 11 -> executeB(e, opcode)
      [] opFamily(opcode) = 12 -> executeC(e, opcode, rnd)
      [] opFamily(opcode) = 13 -> executeD(e, opcode)
      [] opFamily(opcode) = 14 -> executeE(e, opcode)
      [] OTHER -> executeF(e, opcode)

\* The indexes of `stack` that execute(opcode) reads or writes.
stackAccess(e, opcode) ==
    IF opFamily(opcode) = 2 THEN {e.sp + 1}
    ELSE IF opFamily(opcode) = 0 /\ opNN(opcode) = 238 THEN {e.sp}
    ELSE {}

\* The indexes of `memory` that fetch() reads (e is the engine before it).
fetchAccess(e) == {e.pc, JsAdd(e.pc, 1)}

\* The indexes of `memory` that execute(opcode) reads or writes.
memoryAccess(e, opcode) ==
    CASE opFamily(opcode) = 8 /\ opN(opcode) \in {5, 7} -> {15}
      [] opFamily(opcode) = 13 -> {e.ireg + i : i \in 0..(opN(opcode) - 1)}
      [] opFamily(opcode) = 15 /\ opNN(opcode) = 51 -> {e.ireg + i : i \in 0..2}
      [] opFamily(opcode) = 15 /\ opNN(opcode) \in {85, 101} ->
            {e.ireg + i : i \in 0..opX(opcode)}
      [] OTHER -> {}

\* tick(), "update timers": dt and st go down by one when positive, and
\* "make beep sound :)" is logged when st is 1.
updateTimers_unclamped(x) ==
    [e |-> [x EXCEPT !.dt = x.dt - 1, !.st = x.st - 1],
     console |-> IF x.st = 1 THEN <<"make beep sound :)">> ELSE <<>>]

updateTimers_beep_at_zero(x) ==
    [e |-> [x EXCEPT !.dt = IF x.dt > 0 THEN x.dt - 1 ELSE x.dt,
                     !.st = IF x.st > 0 THEN x.st - 1 ELSE x.st],
     console |-> IF x.st > 0 /\ x.st - 1 = 1
                 THEN <<"make beep sound :)">> ELSE <<>>]

updateTimers(x) ==
    [e |-> [x EXCEPT !.dt = IF x.dt > 0 THEN x.dt - 1 ELSE x.dt,
                     !.st = IF x.st > 0 THEN x.st - 1 ELSE x.st],
     console |-> IF x.st > 0 /\ x.st = 1
                 THEN <<"make beep sound :)">> ELSE <<>>]

\* tick() with the pc += 2 of fetch() made after execute().
tick_advances_after(e, rnd) ==
    IF ~e.running THEN [e |-> e, executed |-> e, opcode |-> 0, console |-> <<>>]
    ELSE
        LET f == fetch(e)
            x == execute(e, f.opcode, rnd)
            u == updateTimers([x EXCEPT !.pc = JsAdd(x.pc, 2)])
        IN  [e |-> u.e, executed |-> x, opcode |-> f.opcode, console |-> u.console]

\* tick(): when running, fetch, execute, then the timers.  `executed` is the
\* engine between execute() and the timer update.
tick(e, rnd) ==
    IF ~e.running THEN [e |-> e, executed |-> e, opcode |-> 0, console |-> <<>>]
    ELSE
        LET f == fetch(e)
            x == execute(f.e, f.opcode, rnd)
            u == updateTimers(x)
        IN  [e |-> u.e, executed |-> x, opcode |-> f.opcode, console |-> u.console]

-----------------------------------------------------------------------------
(* The programs the model loads, as bytes.                                 *)

\* 6003 F018: V0 = 3, sound timer = V0.
RomSound == <<96, 3, 240, 24>>
\* 6101 F118 F115 F118: V1 = 1, sound = 1, delay = 1, sound = 1 again.
RomTimers == <<97, 1, 241, 24, 241, 21, 241, 24>>
\* 00EE: a return.
RomReturn == <<0, 238>>
\* 1FFF: jump to the last byte of memory.
RomJumpEnd == <<31, 255>>
\* 2204 0000 00EE: call 0x204, whose instruction is a return.
RomCall == <<34, 4, 0, 0, 0, 238>>
\* D005: draw the 5 rows at ireg (the glyph "0" when ireg is 0) at (V0, V0).
RomDraw == <<208, 5>>

\* The keys the key collaborator presses and releases.
KeysPressed == {10}

\* 6A09 FA18 FA15 A005 DAA5 220C: VA = 9, sound = VA, delay = VA, ireg = 5,
\* draw 5 rows at (9, 9), call 0x20C.
RomBusy == <<106, 9, 250, 24, 250, 21, 160, 5, 218, 165, 34, 12>>

\* D005 00E0: draw the glyph "0" at (0, 0), then clear the screen.
RomClear == <<208, 5, 0, 224>>
\* 8018 E000 F0FF 0123: four words that no case of execute() matches.
RomUnknown == <<128, 24, 224, 0, 240, 255, 1, 35>>
\* 5011: the 0x5000 case with a low nibble that is not 0.
RomSkip5xy1 == <<80, 17>>
\* F00A 6107: wait for a key into V0, then V1 = 7.
RomWaitKey == <<240, 10, 97, 7>>
\* 6A0A EA9E EAA1: VA = 10, skip if key VA is down, skip if key VA is up.
RomKeySkip == <<106, 10, 234, 158, 234, 161>>

\* D005 1200: draw the glyph "0" at (0, 0) and jump back to the draw.
RomDrawLoop == <<208, 5, 18, 0>>

\* 6A09 FA15 A005 DAA5 220A 00E0: VA = 9, delay = VA, ireg = 5, draw 5 rows at
\* (9, 9), call 0x20A, and there clear the screen.
RomBusyClear == <<106, 9, 250, 21, 160, 5, 218, 165, 34, 10, 0, 224>>

\* The programs loaded into an engine that has already run.
Reloads == {RomSound, RomReturn}

Roms == {RomSound, RomTimers, RomReturn, RomJumpEnd, RomCall, RomDraw, RomBusy,
         RomClear, RomUnknown, RomSkip5xy1, RomWaitKey, RomKeySkip, RomDrawLoop,
         RomBusyClear}

\* 6x aa 6y bb 8xyn: Vx = a, Vy = b, then the 8xyn instruction on them.
aluRom(x, y, a, b, n) == <<96 + x, a, 96 + y, b, 128 + x, 16 * y + n>>

\* The registers, values and 8xyn instructions the arithmetic runs draw from.
AluRegs == {0, 1, 15}
AluValues == {0, 1, 3, 5, 10, 127, 128, 250, 255}
AluOps == {4, 5, 6, 7, 14}

\* 6x vx 6y vy Annn Dxyn Dxyn Dxyn: Vx = vx, Vy = vy, ireg = idx, then the
\* same draw of n rows three times.
drawRom(x, y, vx, vy, idx, n) ==
    <<96 + x, vx, 96 + y, vy, 160 + (idx \div 256), idx % 256,
      208 + x, 16 * y + n, 208 + x, 16 * y + n, 208 + x, 16 * y + n>>

\* The register pairs, coordinates, sprite addresses (the glyphs from "0" on,
\* the program itself, the last two bytes of memory) and heights the drawing
\* runs draw from.
DrawRegs == {<<0, 1>>, <<3, 3>>, <<15, 1>>, <<0, 15>>}
DrawXs == {62, 200}
DrawYs == {30, 100}
DrawAddrs == {0, 512, 4094}
DrawRows == {0, 1, 5, 15}

\* Cxnn: Vx = random & nn.
randomRom(x, nn) == <<192 + x, nn>>

\* The registers and masks the random runs draw from.
RandomRegs == {0, 15}
RandomMasks == {0, 15, 255}

\* 60aa 61bb 6Fcc Annn Fx55 60EE Fx65: V0, V1, VF = a, b, c, ireg = idx, store
\* V0..Vx, overwrite V0, load V0..Vx.
storeRom(x, idx, v) ==
    <<96, v[1], 97, v[2], 111, v[3], 160 + (idx \div 256), idx % 256,
      240 + x, 85, 96, 238, 240 + x, 101>>

\* The register counts, addresses (0xFF0 + 15 is the last byte of memory, 0x200
\* is the program itself) and values the store/load runs draw from.
StoreRegs == {0, 1, 15}
StoreAddrs == {752, 4080, 512}
StoreValues == {<<17, 34, 51>>, <<255, 0, 1>>}

\* 6y07 6xnn: Vy = 7, then Vx = nn.
setRom(y, x, nn) == <<96 + y, 7, 96 + x, nn>>

\* The register written first in the 6xnn runs.
SetFirst == {0, 15}

\* 60vv A005 D011 F015 8004, then 1nnn (op = 1) or Bnnn (op = 11): V0 = v,
\* ireg = 5, a draw, delay = V0, V0 += V0, and the jump.
jumpRom(v, nnn, op) ==
    <<96, v, 160, 5, 208, 17, 240, 21, 128, 4,
      16 * op + (nnn \div 256), nnn % 256>>

\* The values of V0 and the jump targets (the font, the program, its jump, the
\* last byte of memory) the jump runs draw from.
JumpValues == {0, 7, 255}
JumpTargets == {0, 512, 522, 4095}

\* call 0x202, call 0x204, ...: k calls, each to the instruction after it, and
\* then k returns.
callChain(k) ==
    [i \in 1..(4 * k) |->
        IF i <= 2 * k
        THEN (IF i % 2 = 1 THEN 32 + ((512 + i + 1) \div 256) ELSE (512 + i) % 256)
        ELSE (IF i % 2 = 1 THEN 0 ELSE 238)]

\* k nested calls and their k returns.  The main program at 0x200 is
\* "call 0x204; 1202" (it ends in a jump to itself); the subroutine at
\* 0x200 + 4i, for i < k, is "call 0x200 + 4(i + 1); 00EE", and the innermost
\* one at 0x200 + 4k is "00EE".  The c-th call is at 0x200 + 4(c - 1).
nestRom(k) ==
    [j \in 1..(4 * k + 2) |->
        LET o == j - 1
            i == (o \div 4) + 1
        IN  IF o >= 4 * k THEN (IF o % 2 = 0 THEN 0 ELSE 238)
            ELSE CASE o % 4 = 0 -> 32 + ((512 + 4 * i) \div 256)
                   [] o % 4 = 1 -> (512 + 4 * i) % 256
                   [] o % 4 = 2 -> (IF i = 1 THEN 18 ELSE 0)
                   [] OTHER -> (IF i = 1 THEN 2 ELSE 238)]

-----------------------------------------------------------------------------
(* Bounds of the model.                                                    *)

MaxTicks == 6
MaxLoads == 1
MaxDepth == 16
MaxStackTicks == 33
MaxAluTicks == 3
MaxDrawTicks == 6
MaxRandomTicks == 1
MaxStoreTicks == 7
MaxSetTicks == 2
MaxJumpTicks == 7
MaxNest == 16
MaxNestTicks == 33

-----------------------------------------------------------------------------
(* The state machine.  obs records what the last call did (kind "key" for  *)
(* a key event, "new" after construction and its load): its kind, pc and   *)
(* sp before it (addr, spBefore), and for a tick the instruction, the      *)
(* array indexes it used and the timers as execute() left them (for the    *)
(* other calls dtExec and stExec are the timers before the call, and for   *)
(* a reset `changed` names the fields that were not as constructed; `lit`  *)
(* is the set of pixels that were on before a tick); snd                   *)
(* follows the sound timer since the last tick that executed Fx18; calls   *)
(* counts the calls made since construction or reset, to bound the runs.   *)

NoObs ==
    [kind |-> "new", opcode |-> 0, addr |-> 0, spBefore |-> 0,
     stackIdx |-> {}, memIdx |-> {}, dtExec |-> 0, stExec |-> 0, data |-> <<>>,
     changed |-> {}, lit |-> {}]

\* The pixels <<x, y>> of a screen that are on.
Lit(scr) ==
    IF scr = init_screen THEN {}
    ELSE {p \in (0..(screen_width - 1)) \X (0..(screen_height - 1)) :
            scr[p[2]][p[1]] = 1}

\* The fields of the engine that are not as the constructor leaves them.
Changed(e) == {f \in DOMAIN e : e[f] # constructor[f]}

SetEngine(e) ==
    /\ memory' = e.memory
    /\ vreg' = e.vreg
    /\ ireg' = e.ireg
    /\ stack' = e.stack
    /\ sp' = e.sp
    /\ pc' = e.pc
    /\ dt' = e.dt
    /\ st' = e.st
    /\ keys' = e.keys
    /\ screen' = e.screen
    /\ running' = e.running

\* new Emulator(), and the load of a program that the main file makes next.
InitWith(roms) ==
    /\ \E rom \in roms :
        /\ memory = load(constructor, rom).memory
        /\ obs = [NoObs EXCEPT !.data = rom, !.addr = 512]
    /\ vreg = constructor.vreg
    /\ ireg = constructor.ireg
    /\ stack = constructor.stack
    /\ sp = constructor.sp
    /\ pc = constructor.pc
    /\ dt = constructor.dt
    /\ st = constructor.st
    /\ keys = constructor.keys
    /\ screen = constructor.screen
    /\ running = constructor.running
    /\ console = <<>>
    /\ snd = [armed |-> FALSE, v |-> 0, ticks |-> 0, beeps |-> 0]
    /\ calls = [tick |-> 0, load |-> 0]

Init == InitWith(Roms \cup {<<>>})

IsFx15(opcode) == opFamily(opcode) = 15 /\ opNN(opcode) = 21
IsFx18(opcode) == opFamily(opcode) = 15 /\ opNN(opcode) = 24
IsCall(opcode) == opFamily(opcode) = 2
IsReturn(opcode) == opcode = 238

TickWithin(limit) ==
    /\ calls.tick < limit
    /\ \E f \in {fetch(Engine)} :
       \E rnd \in (IF opFamily(f.opcode) = 12 THEN RandomInts ELSE {0}) :
       \E t \in {tick(Engine, rnd)} :
        LET beeped == IF t.console = <<>> THEN 0 ELSE 1
        IN  /\ SetEngine(t.e)
            /\ console' = t.console
            /\ obs' = [kind |-> "tick", opcode |-> t.opcode, addr |-> pc,
                       spBefore |-> sp,
                       stackIdx |-> stackAccess(f.e, f.opcode),
                       memIdx |-> fetchAccess(Engine) \cup memoryAccess(f.e, f.opcode),
                       dtExec |-> t.executed.dt, stExec |-> t.executed.st,
                       data |-> <<>>, changed |-> {}, lit |-> Lit(screen)]
            /\ snd' = IF IsFx18(t.opcode)
                      THEN [armed |-> TRUE, v |-> vreg[opX(t.opcode)], ticks |-> 1,
                            beeps |-> beeped]
                      ELSE IF snd.armed
                      THEN [snd EXCEPT !.ticks = @ + 1, !.beeps = @ + beeped]
                      ELSE snd
    /\ calls' = [calls EXCEPT !.tick = @ + 1]

LoadWithin(data, limit) ==
    /\ calls.load < limit
    /\ \E e \in {load(Engine, data)} : SetEngine(e)
    /\ console' = <<>>
    /\ obs' = [NoObs EXCEPT !.kind = "load", !.data = data, !.addr = pc,
                            !.spBefore = sp, !.dtExec = dt, !.stExec = st]
    /\ calls' = [calls EXCEPT !.load = @ + 1]
    /\ UNCHANGED snd

Tick == TickWithin(MaxTicks)

Load == \E data \in Reloads : LoadWithin(data, MaxLoads)

Reset ==
    /\ \E e \in {reset(Engine)} : SetEngine(e)
    /\ console' = <<>>
    /\ obs' = [NoObs EXCEPT !.kind = "reset", !.addr = pc, !.spBefore = sp,
                            !.dtExec = dt, !.stExec = st,
                            !.changed = Changed(Engine)]
    /\ snd' = [armed |-> FALSE, v |-> 0, ticks |-> 0, beeps |-> 0]
    /\ calls' = [tick |-> 0, load |-> 0]

\* The key collaborator: key k goes down or up.
SetKey ==
    \E k \in KeysPressed, pressed \in BOOLEAN :
        /\ keys' = [keys EXCEPT ![k] = pressed]
        /\ console' = <<>>
        /\ obs' = [NoObs EXCEPT !.kind = "key"]
        /\ UNCHANGED <<memory, vreg, ireg, stack, sp, pc, dt, st, screen, running,
                       snd, calls>>

Next == Tick \/ Load \/ Reset \/ SetKey

Spec == Init /\ [][Next]_vars

\* Runs over the call chains: one program is loaded and then ticked.
StackTick == TickWithin(MaxStackTicks)

StackInit == InitWith({callChain(k) : k \in 1..MaxDepth})

StackNext == StackTick

StackSpec == StackInit /\ [][StackNext]_vars

\* Runs over the arithmetic programs: one program is loaded and then ticked.
AluTick == TickWithin(MaxAluTicks)

AluInit ==
    InitWith({aluRom(x, y, a, b, n) :
                x \in AluRegs, y \in AluRegs, a \in AluValues, b \in AluValues,
                n \in AluOps})

AluNext == AluTick

AluSpec == AluInit /\ [][AluNext]_vars

\* Runs over the drawing programs: one program is loaded and then ticked.
DrawTick == TickWithin(MaxDrawTicks)

DrawInit ==
    InitWith({drawRom(r[1], r[2], vx, vy, idx, n) :
                r \in DrawRegs, vx \in DrawXs, vy \in DrawYs, idx \in DrawAddrs,
                n \in DrawRows})

DrawNext == DrawTick

DrawSpec == DrawInit /\ [][DrawNext]_vars

\* Runs over the random programs: one program is loaded and then ticked.
RandomTick == TickWithin(MaxRandomTicks)

RandomInit == InitWith({randomRom(x, nn) : x \in RandomRegs, nn \in RandomMasks})

RandomNext == RandomTick

RandomSpec == RandomInit /\ [][RandomNext]_vars

\* Runs over the store/load programs: one program is loaded and then ticked.
StoreTick == TickWithin(MaxStoreTicks)

StoreInit ==
    InitWith({storeRom(x, idx, v) :
                x \in StoreRegs, idx \in StoreAddrs, v \in StoreValues})

StoreNext == StoreTick

StoreSpec == StoreInit /\ [][StoreNext]_vars

\* Runs over the 6xnn programs: one program is loaded and then ticked.
SetTick == TickWithin(MaxSetTicks)

SetInit ==
    InitWith({setRom(y, x, nn) : y \in SetFirst, x \in 0..15, nn \in 0..255})

SetNext == SetTick

SetSpec == SetInit /\ [][SetNext]_vars

\* Runs over the jump programs: one program is loaded and then ticked.
JumpTick == TickWithin(MaxJumpTicks)

JumpInit ==
    InitWith({jumpRom(v, nnn, op) :
                v \in JumpValues, nnn \in JumpTargets, op \in {1, 11}})

JumpNext == JumpTick

JumpSpec == JumpInit /\ [][JumpNext]_vars

\* Runs over the nested calls: one program is loaded and then ticked.
NestTick == TickWithin(MaxNestTicks)

NestInit == InitWith({nestRom(k) : k \in 1..MaxNest})

NestNext == NestTick

NestSpec == NestInit /\ [][NestNext]_vars

-----------------------------------------------------------------------------
(* The claims.                                                             *)

Max(a, b) == IF a >= b THEN a ELSE b

Beeps(log) == Cardinality({i \in 1..Len(log) : log[i] = "make beep sound :)"})

\* C1: when a tick executes 2nnn at address a and the very next tick executes
\* 00EE, pc is a + 2 after the second tick and sp is what it was before the
\* call.
C1_CallThenReturn ==
    [][(obs.kind = "tick" /\ IsCall(obs.opcode)
            /\ obs'.kind = "tick" /\ IsReturn(obs'.opcode))
        => (pc' = obs.addr + 2 /\ sp' = obs.spBefore)]_vars

\* C2: every index a tick uses to read or write the call stack lies in
\* 0..stack_size-1.
C2_StackIndexInRange ==
    obs.kind = "tick" => obs.stackIdx \subseteq 0..(stack_size - 1)

\* C3: every memory address a tick reads or writes (in fetch and in the
\* instruction) lies in 0..4095.
C3_MemoryIndexInRange ==
    obs.kind = "tick" => obs.memIdx \subseteq 0..(ram_size - 1)

\* C4: after every tick pc is a well-defined integer address (a number, not
\* undefined or NaN), so that the next tick fetches an instruction.
C4_PcIsAnAddress == obs.kind = "tick" => IsNumber(pc)

\* C5: after every tick each timer is the value execute() left, minus one
\* when that was nonzero and 0 when it was 0; a timer set by Fx15 / Fx18 in the
\* tick is already decremented once, and no timer is negative.
C5_TimersDecrementAfterExecute ==
    obs.kind = "tick" =>
        /\ dt = (IF obs.dtExec # 0 THEN obs.dtExec - 1 ELSE 0)
        /\ st = (IF obs.stExec # 0 THEN obs.stExec - 1 ELSE 0)
        /\ dt >= 0 /\ st >= 0
        /\ IsFx15(obs.opcode) => dt = Max(vreg[opX(obs.opcode)] - 1, 0)
        /\ IsFx18(obs.opcode) => st = Max(vreg[opX(obs.opcode)] - 1, 0)

C5_Witness ==
    /\ obs.kind = "tick" /\ IsFx15(obs.opcode)
    /\ vreg[opX(obs.opcode)] = 1 /\ obs.dtExec = 1 /\ dt = 0
    /\ obs.stExec = 0 /\ st = 0

\* C6: a tick logs the beep exactly when the sound timer is 1 just before the
\* tick's decrement; it logs it once and leaves the timer at 0, and a tick in
\* which the sound timer is 0 logs nothing.
C6_BeepIffSoundTimerWasOne ==
    obs.kind = "tick" =>
        /\ Beeps(console) = (IF obs.stExec = 1 THEN 1 ELSE 0)
        /\ obs.stExec = 1 => st = 0

C6_Witness == obs.kind = "tick" /\ obs.stExec = 1 /\ Beeps(console) = 1 /\ st = 0

\* C7: after a tick executed Fx18 with register[x] = v >= 1, and while no later
\* tick executes Fx18 (and the engine is not reset), the sound timer is v - k
\* at the end of the k-th tick counting from that one (v - 1 at the end of the
\* first, 0 from the v-th on), and the beep has been logged once in all from
\* the v-th tick on and not before.
C7_SoundTimerRunsDown ==
    (snd.armed /\ snd.v >= 1) =>
        /\ st = Max(snd.v - snd.ticks, 0)
        /\ snd.beeps = (IF snd.ticks >= snd.v THEN 1 ELSE 0)

C7_Witness ==
    /\ snd.armed /\ snd.v = 3 /\ snd.ticks = 4 /\ snd.beeps = 1 /\ st = 0
    /\ console = <<>>

\* C8: load(bytes) leaves memory[0x200 + i] = bytes[i] for every i.
C8_LoadWritesAt0x200 ==
    obs.kind = "load" =>
        \A i \in 1..Len(obs.data) : memory[512 + i - 1] = obs.data[i]

\* C9: load(bytes) leaves every byte at 0x000..0x1FF as it was.
C9_LoadKeepsReservedMemory ==
    [][obs'.kind = "load" => \A a \in 0..511 : memory'[a] = memory[a]]_vars

\* C10: after reset() the engine is in the state the constructor leaves:
\* memory zero but for the font, registers, index register, stack and timers
\* zero, sp at its initial value, pc = 0x200, keys released, display off; so
\* its next tick is the tick of a new engine.
C10_ResetIsConstruction ==
    obs.kind = "reset" =>
        /\ Engine = constructor
        /\ \A a \in 0..(ram_size - 1) :
              memory[a] = (IF a < font_size THEN font_set[a + 1] ELSE 0)
        /\ \A r \in 0..15 : vreg[r] = 0
        /\ \A i \in 0..(stack_size - 1) : stack[i] = 0
        /\ ireg = 0 /\ sp = 0 /\ pc = 512 /\ dt = 0 /\ st = 0
        /\ \A k \in 0..15 : ~keys[k]
        /\ \A yy \in 0..31 : \A xx \in 0..63 : screen[yy][xx] = 0
        /\ tick(Engine, 0) = tick(constructor, 0)

C10_Witness ==
    /\ obs.kind = "reset"
    /\ obs.changed = {"memory", "vreg", "ireg", "stack", "sp", "pc", "dt", "st",
                      "keys", "screen"}
    /\ obs.addr = 524 /\ obs.stExec = 4 /\ obs.dtExec = 5 /\ obs.spBefore = 1
    /\ Engine = constructor

\* C11: after a tick that executes 00E0, whatever the display showed before,
\* every pixel (x, y) with 0 <= x <= 63 and 0 <= y <= 31 is off.
C11_ClearScreen ==
    (obs.kind = "tick" /\ obs.opcode = 224) =>
        \A x \in 0..63 : \A y \in 0..31 : screen[y][x] = 0

C11_Witness ==
    /\ obs.kind = "tick" /\ obs.opcode = 224
    /\ <<1, 0>> \in obs.lit /\ Cardinality(obs.lit) = 14
    /\ screen[0][1] = 0

\* The instruction words of the opcode table.
InTable(opcode) ==
    LET f == opcode \div 4096
        n == opcode % 16
        nn == opcode % 256
    IN  CASE f = 0 -> opcode \in {224, 238}
          [] f \in {5, 9} -> n = 0
          [] f = 8 -> n \in (0..7) \cup {14}
          [] f = 14 -> nn \in {158, 161}
          [] f = 15 -> nn \in {7, 10, 21, 24, 30, 41, 51, 85, 101}
          [] OTHER -> TRUE

\* C12: a tick whose instruction word matches no pattern of the opcode table
\* leaves memory, the registers, the index register, the stack, the stack
\* pointer, the keys and the display as they were and sets pc to the fetch
\* address + 2 (so the next tick executes the next instruction).
C12_UnknownOpcodeIsNoOp ==
    [][(obs'.kind = "tick" /\ ~InTable(obs'.opcode) /\ IsNumber(pc)) =>
            /\ memory' = memory /\ vreg' = vreg /\ ireg' = ireg
            /\ stack' = stack /\ sp' = sp /\ keys' = keys /\ screen' = screen
            /\ pc' = pc + 2]_vars

IsFx0A(opcode) == opFamily(opcode) = 15 /\ opNN(opcode) = 10

NoKeyPressed == \A k \in 0..(key_size - 1) : ~keys[k]

\* C13: when a tick has executed Fx0A at address a and no key is pressed, the
\* tick that follows leaves pc at a + 2 and changes no register: the engine
\* waits for a key instead of fetching the instruction at a + 2.
C13_WaitsForKey ==
    [][(obs.kind = "tick" /\ IsFx0A(obs.opcode) /\ NoKeyPressed
            /\ obs'.kind = "tick")
        => (pc' = obs.addr + 2 /\ vreg' = vreg)]_vars

IsEx9E(opcode) == opFamily(opcode) = 14 /\ opNN(opcode) = 158
IsExA1(opcode) == opFamily(opcode) = 14 /\ opNN(opcode) = 161

\* key[v] is pressed.
KeyDown(ks, v) == v \in 0..(key_size - 1) /\ ks[v]

\* C14: a tick executing Ex9E at address a ends with pc = a + 4 if
\* key[register[x]] is pressed and pc = a + 2 otherwise; a tick executing ExA1
\* ends with pc = a + 4 if that key is not pressed and pc = a + 2 otherwise.
C14_KeySkips ==
    [][(obs'.kind = "tick" /\ IsNumber(pc)) =>
            /\ IsEx9E(obs'.opcode) =>
                  pc' = (IF KeyDown(keys, vreg[opX(obs'.opcode)])
                         THEN pc + 4 ELSE pc + 2)
            /\ IsExA1(obs'.opcode) =>
                  pc' = (IF ~KeyDown(keys, vreg[opX(obs'.opcode)])
                         THEN pc + 4 ELSE pc + 2)]_vars

Is8xyN(opcode, n) == opFamily(opcode) = 8 /\ opN(opcode) = n

\* C15: for x # 0xF and a = register[x], b = register[y], a tick executing
\* 8xy4 leaves register[x] = (a + b) mod 256 and register[0xF] = 1 if
\* a + b > 255, else 0.
C15_AddWithCarry ==
    [][(obs'.kind = "tick" /\ Is8xyN(obs'.opcode, 4) /\ opX(obs'.opcode) # 15) =>
            LET a == vreg[opX(obs'.opcode)]
                b == vreg[opY(obs'.opcode)]
            IN  /\ vreg'[opX(obs'.opcode)] = (a + b) % 256
                /\ vreg'[15] = (IF a + b > 255 THEN 1 ELSE 0)]_vars

\* 60FA 610A 8014 has run: 250 + 10 left V0 = 4 and the flag 1.
C15_Witness ==
    /\ obs.kind = "tick" /\ obs.opcode = 32788
    /\ obs.data = <<>> /\ memory[513] = 250 /\ memory[515] = 10
    /\ vreg[0] = 4 /\ vreg[1] = 10 /\ vreg[15] = 1

\* The flag of 8xyn on the operands a = register[x], b = register[y], as the
\* opcode table gives it.
Flag8(n, a, b) ==
    CASE n = 4 -> (IF a + b > 255 THEN 1 ELSE 0)
      [] n = 5 -> (IF a > b THEN 1 ELSE 0)
      [] n = 6 -> a % 2
      [] n = 7 -> (IF b > a THEN 1 ELSE 0)
      [] n = 14 -> (a \div 128) % 2

\* The pixels <<x, y>> a sprite of n rows at memory[idx..idx+n-1] sets when it
\* is drawn at (vx, vy): bit 7 - col of row `row` goes to
\* ((vx + col) mod 64, (vy + row) mod 32).
SpriteCells(mem, idx, vx, vy, n) ==
    {<<(vx + rc[2]) % 64, (vy + rc[1]) % 32>> :
        rc \in {q \in (0..(n - 1)) \X (0..7) :
                  /\ idx + q[1] \in 0..4095
                  /\ (mem[idx + q[1]] \div (2 ^ (7 - q[2]))) % 2 = 1}}

\* The collision flag of a draw: 1 when a pixel the sprite sets was on.
Collision(scr, cells) == IF \E c \in cells : scr[c[2]][c[1]] = 1 THEN 1 ELSE 0

\* C16: a flag-writing instruction (8xy4, 8xy5, 8xy6, 8xy7, 8xyE, Dxyn) with
\* x = 0xF or y = 0xF reads its operands from the registers as they were
\* before the instruction and leaves in register[0xF] the flag (0 or 1)
\* computed from them, not the arithmetic result.
C16_FlagWrittenLast ==
    [][(obs'.kind = "tick"
            /\ (opX(obs'.opcode) = 15 \/ opY(obs'.opcode) = 15)) =>
            LET x == opX(obs'.opcode)
                y == opY(obs'.opcode)
                n == opN(obs'.opcode)
            IN  /\ (opFamily(obs'.opcode) = 8 /\ n \in {4, 5, 6, 7, 14}) =>
                      vreg'[15] = Flag8(n, vreg[x], vreg[y])
                /\ opFamily(obs'.opcode) = 13 =>
                      vreg'[15] = Collision(screen,
                                    SpriteCells(memory, ireg, vreg[x], vreg[y], n))
       ]_vars

\* C17: for x # 0xF and a = register[x], b = register[y], a tick executing
\* 8xy5 leaves register[0xF] = 1 if a > b else 0 and register[x] =
\* (a - b) mod 256; a tick executing 8xy7 leaves register[0xF] = 1 if b > a
\* else 0 and register[x] = (b - a) mod 256.
C17_SubtractWithFlag ==
    [][(obs'.kind = "tick" /\ opX(obs'.opcode) # 15) =>
            LET a == vreg[opX(obs'.opcode)]
                b == vreg[opY(obs'.opcode)]
            IN  /\ Is8xyN(obs'.opcode, 5) =>
                      /\ vreg'[15] = (IF a > b THEN 1 ELSE 0)
                      /\ vreg'[opX(obs'.opcode)] = (a - b) % 256
                /\ Is8xyN(obs'.opcode, 7) =>
                      /\ vreg'[15] = (IF b > a THEN 1 ELSE 0)
                      /\ vreg'[opX(obs'.opcode)] = (b - a) % 256]_vars

\* C18: for x # 0xF and a = register[x], a tick executing 8xyE leaves
\* register[0xF] = (a >> 7) & 1, which is 0 or 1, and register[x] =
\* (a << 1) mod 256; a tick executing 8xy6 leaves register[0xF] = a & 1 and
\* register[x] = a >> 1.
C18_ShiftWithFlag ==
    [][(obs'.kind = "tick" /\ opX(obs'.opcode) # 15) =>
            LET a == vreg[opX(obs'.opcode)]
            IN  /\ Is8xyN(obs'.opcode, 14) =>
                      /\ vreg'[15] = (a \div 128) % 2
                      /\ vreg'[15] \in {0, 1}
                      /\ vreg'[opX(obs'.opcode)] = (a * 2) % 256
                /\ Is8xyN(obs'.opcode, 6) =>
                      /\ vreg'[15] = a % 2
                      /\ vreg'[opX(obs'.opcode)] = a \div 2]_vars

IsDxyn(opcode) == opFamily(opcode) = 13

\* C19 as claimed: when the same Dxyn (x, y # 0xF) is executed twice in a row,
\* the display after the second draw is the display before the first, and the
\* second draw leaves register[0xF] = 1 whenever the sprite has a set bit.
C19_DrawTwiceAlwaysCollides ==
    [][(obs.kind = "tick" /\ IsDxyn(obs.opcode)
            /\ obs'.kind = "tick" /\ obs'.opcode = obs.opcode
            /\ opX(obs.opcode) # 15 /\ opY(obs.opcode) # 15) =>
            LET cells == SpriteCells(memory, ireg, vreg[opX(obs.opcode)],
                                     vreg[opY(obs.opcode)], opN(obs.opcode))
            IN  /\ Lit(screen') = obs.lit
                /\ cells # {} => vreg'[15] = 1]_vars

\* C19, amended: when the same Dxyn (x, y # 0xF) is executed twice in a row,
\* the display after the second draw is the display before the first, and the
\* second draw leaves register[0xF] = 1 exactly when at least one pixel the
\* sprite sets was off before the first draw.
C19_DrawTwiceRestores ==
    [][(obs.kind = "tick" /\ IsDxyn(obs.opcode)
            /\ obs'.kind = "tick" /\ obs'.opcode = obs.opcode
            /\ opX(obs.opcode) # 15 /\ opY(obs.opcode) # 15) =>
            LET cells == SpriteCells(memory, ireg, vreg[opX(obs.opcode)],
                                     vreg[opY(obs.opcode)], opN(obs.opcode))
            IN  /\ Lit(screen') = obs.lit
                /\ vreg'[15] = (IF cells \ obs.lit # {} THEN 1 ELSE 0)]_vars

\* The second of the draws of the glyph "0" at (62, 30) has run: the display
\* it found lit is dark again and the flag is 1.
C19_Witness ==
    /\ obs.kind = "tick" /\ obs.opcode = 53269 /\ obs.addr = 520
    /\ memory[518] = 208 /\ memory[519] = 21
    /\ vreg[0] = 62 /\ vreg[1] = 30 /\ ireg = 0
    /\ Cardinality(obs.lit) = 14 /\ Lit(screen) = {} /\ vreg[15] = 1

\* C20: a tick executing Dxyn on a sprite that lies in memory toggles exactly
\* the pixels ((register[x] + col) mod 64, (register[y] + row) mod 32) for
\* which bit 7 - col of memory[index + row] is 1 (0 <= row < n, 0 <= col < 8),
\* leaves every other pixel as it was, and leaves register[0xF] = 1 if a
\* toggled pixel was on before the instruction and 0 otherwise.  (The pixels
\* that are on after the tick are those that were on and are not the
\* sprite's, and those of the sprite that were off.)
C20_DrawTogglesSprite ==
    [][(obs'.kind = "tick" /\ IsDxyn(obs'.opcode)
            /\ ireg + opN(obs'.opcode) <= ram_size) =>
            LET cells == SpriteCells(memory, ireg, vreg[opX(obs'.opcode)],
                                     vreg[opY(obs'.opcode)], opN(obs'.opcode))
                before == Lit(screen)
            IN  /\ Lit(screen') = (before \ cells) \cup (cells \ before)
                /\ vreg'[15] = Collision(screen, cells)]_vars

\* The second draw of the glyph "0" at (62, 30): the pixel (1, 2), reached by
\* wrapping round both edges, was on and is off, and the flag is 1.
C20_Witness ==
    /\ obs.kind = "tick" /\ obs.opcode = 53269
    /\ vreg[0] = 62 /\ vreg[1] = 30 /\ ireg = 0
    /\ <<1, 2>> \in obs.lit /\ <<62, 31>> \in obs.lit
    /\ screen[2][1] = 0 /\ screen[31][62] = 0 /\ vreg[15] = 1

\* C21: for every (x, y) with 0 <= x <= 63 and 0 <= y <= 31 and every display
\* state, drawPixel(x, y) flips the pixel at column x, row y, leaves every
\* other pixel as it was, and returns true exactly when that pixel was on
\* before the flip.
C21_DrawPixelToggles ==
    \A x \in 0..63 : \A y \in 0..31 :
        LET r == drawPixel(screen, x, y)
        IN  /\ r.screen = [screen EXCEPT ![y][x] = 1 - screen[y][x]]
            /\ r.collided = (screen[y][x] = 1)

\* The glyph "0" is drawn at (62, 30): drawPixel on its pixel (62, 31) turns
\* it off and returns true, and on the dark pixel (5, 5) returns false.
C21_Witness ==
    /\ obs.kind = "tick" /\ obs.opcode = 53269 /\ obs.lit = {}
    /\ screen[31][62] = 1 /\ screen[5][5] = 0
    /\ drawPixel(screen, 62, 31).collided
    /\ drawPixel(screen, 62, 31).screen[31][62] = 0
    /\ ~drawPixel(screen, 5, 5).collided
    /\ drawPixel(screen, 5, 5).screen[5][5] = 1

\* Two engines agree on memory, registers, pc, stack and timers.
Agree(a, b) ==
    /\ a.pc = b.pc /\ a.sp = b.sp /\ a.ireg = b.ireg /\ a.dt = b.dt /\ a.st = b.st
    /\ a.vreg = b.vreg /\ a.stack = b.stack /\ a.memory = b.memory

\* The instruction at pc is not Cxnn.
NotRandomAtPc == opFamily(fetch(Engine).opcode) # 12

\* The engine that `new Emulator()` and a load of the bytes now in memory from
\* 0x200 on give (the bytes below 0x200 are then the constructor's).
Fresh == [constructor EXCEPT !.memory = memory]

\* C22 as claimed: two engine states that agree on memory, registers, pc,
\* stack and timers, with an instruction other than Cxnn at pc, agree on them
\* again after one tick each.  The second state here is the freshly loaded
\* engine, which differs from the first in its display at most.
C22_SameCoreSameTick ==
    (/\ pc = 512 /\ sp = 0 /\ ireg = 0 /\ dt = 0 /\ st = 0
     /\ \A a \in 0..511 : memory[a] = constructor.memory[a]
     /\ Agree(Engine, Fresh)
     /\ NotRandomAtPc)
        => Agree(tick(Engine, 0).e, tick(Fresh, 0).e)

\* C22, amended: two engine states that agree on memory, registers, pc, stack,
\* timers and the display, with an instruction other than Cxnn at pc, agree on
\* all of them again after one tick each.  The second state here is the first
\* with a key of the other position.
C22_SameCoreAndDisplaySameTick ==
    \A k \in KeysPressed :
        LET other == [Engine EXCEPT !.keys[k] = ~keys[k]]
            t1 == tick(Engine, 0).e
            t2 == tick(other, 0).e
        IN  NotRandomAtPc => (Agree(t1, t2) /\ t1.screen = t2.screen)

\* Key 10 is down, VA = 10 and EAA1 is the next instruction: the tick from
\* this state and the tick from the state with the key up end alike.
C22_Witness ==
    /\ keys[10] /\ vreg[10] = 10 /\ pc = 516
    /\ memory[516] = 234 /\ memory[517] = 161
    /\ tick(Engine, 0).e.pc = 518
    /\ tick([Engine EXCEPT !.keys[10] = FALSE], 0).e.pc = 518

\* C23: a tick executing Cxnn leaves register[x] = r & nn for some byte r, and
\* every byte r in 0..255 is a possible choice (for nn = 0xFF each value
\* 0..255, 255 included, is a possible result); nothing but register[x]
\* depends on the choice.
C23_RandomByte ==
    opFamily(fetch(Engine).opcode) = 12 =>
        LET x == opX(fetch(Engine).opcode)
            nn == opNN(fetch(Engine).opcode)
            results == {tick(Engine, rnd).e : rnd \in RandomInts}
        IN  /\ \A t \in results : \E r \in 0..255 : t.vreg[x] = BitAnd(r, nn)
            /\ \A r \in 0..255 : \E t \in results : t.vreg[x] = BitAnd(r, nn)
            /\ \A t \in results :
                  [t EXCEPT !.vreg[x] = 0] =
                      [tick(Engine, 0).e EXCEPT !.vreg[x] = 0]

IsFx55(opcode) == opFamily(opcode) = 15 /\ opNN(opcode) = 85
IsFx65(opcode) == opFamily(opcode) = 15 /\ opNN(opcode) = 101

\* C24: with the index register i and i + x <= 4095, a tick executing Fx55
\* leaves memory[i + k] = register[k] for every k in 0..x and leaves the
\* registers, the index register and every other memory byte as they were; a
\* later Fx65 with the same index loads registers 0..x from those bytes (and
\* leaves the other registers, the index register and memory as they were).
C24_StoreAndLoadRegisters ==
    [][(obs'.kind = "tick" /\ ireg + opX(obs'.opcode) <= 4095) =>
            LET x == opX(obs'.opcode)
            IN  /\ IsFx55(obs'.opcode) =>
                      /\ \A k \in 0..x : memory'[ireg + k] = vreg[k]
                      /\ \A a \in 0..(ram_size - 1) :
                            a \notin ireg..(ireg + x) => memory'[a] = memory[a]
                      /\ vreg' = vreg /\ ireg' = ireg
                /\ IsFx65(obs'.opcode) =>
                      /\ \A k \in 0..15 :
                            vreg'[k] = (IF k <= x THEN memory[ireg + k] ELSE vreg[k])
                      /\ memory' = memory /\ ireg' = ireg]_vars

\* 6011 6122 6F33 A2F0 F155 60EE F165 has run: V0 and V1 are 0x11 and 0x22
\* again, read back from memory[0x2F0..0x2F1], and memory[0x2F2] is untouched.
C24_Witness ==
    /\ obs.kind = "tick" /\ obs.opcode = 61797 /\ obs.addr = 524
    /\ memory[520] = 241 /\ memory[521] = 85 /\ memory[523] = 238
    /\ ireg = 752 /\ memory[752] = 17 /\ memory[753] = 34 /\ memory[754] = 0
    /\ vreg[0] = 17 /\ vreg[1] = 34 /\ vreg[15] = 51

\* C25: for every x in 0..15 and nn in 0..255, a tick executing 6xnn leaves
\* register[x] = nn and every other register as it was.
C25_SetRegister ==
    [][(obs'.kind = "tick" /\ opFamily(obs'.opcode) = 6) =>
            /\ vreg'[opX(obs'.opcode)] = opNN(obs'.opcode)
            /\ \A r \in 0..15 : r # opX(obs'.opcode) => vreg'[r] = vreg[r]]_vars

\* 6F07 6FFF has run: VF, which was 7, is 255, and the others are 0.
C25_Witness ==
    /\ obs.kind = "tick" /\ obs.opcode = 28671 /\ obs.addr = 514
    /\ memory[512] = 111 /\ memory[513] = 7
    /\ vreg[15] = 255 /\ \A r \in 0..14 : vreg[r] = 0

\* The instructions of the opcode table that neither jump, call, return, skip
\* nor wait.
NonControlFlow(opcode) ==
    LET f == opcode \div 4096
    IN  /\ InTable(opcode)
        /\ \/ opcode = 224
           \/ f \in {6, 7, 8, 10, 12, 13}
           \/ f = 15 /\ opcode % 256 # 10

\* C26: a tick fetches the word (memory[pc] << 8) | memory[pc + 1] and advances
\* pc by 2 before the instruction executes: a tick executing 1nnn ends with
\* pc = nnn, a tick executing Bnnn ends with pc = nnn + register[0], and a tick
\* executing an instruction that is no control flow at address a ends with
\* pc = a + 2.
C26_FetchThenExecute ==
    [][(obs'.kind = "tick" /\ IsNumber(pc) /\ pc + 1 <= 4095) =>
            /\ obs'.opcode = memory[pc] * 256 + memory[pc + 1]
            /\ opFamily(obs'.opcode) = 1 => pc' = obs'.opcode % 4096
            /\ opFamily(obs'.opcode) = 11 => pc' = (obs'.opcode % 4096) + vreg[0]
            /\ NonControlFlow(obs'.opcode) => pc' = pc + 2]_vars

\* 60FF ... 8004 BFFF has run: V0 is 254 and pc is 0xFFF + 254.
C26_Witness ==
    /\ obs.kind = "tick" /\ obs.opcode = 49151 /\ obs.addr = 522
    /\ vreg[0] = 254 /\ pc = 4349

\* C27: k nested calls (1 <= k <= 16) from an empty stack followed by k
\* returns restore pc in last-in-first-out order: the return made at depth d
\* (the j-th return, d = k - j + 1) sets pc to the address following the d-th
\* call, which in these programs is 0x202 + 4(d - 1), and leaves depth d - 1,
\* so that the stack is empty after the k-th return.
C27_NestedCallsReturnInOrder ==
    (obs.kind = "tick" /\ IsReturn(obs.opcode) /\ obs.spBefore \in 1..16) =>
        /\ pc = 514 + 4 * (obs.spBefore - 1)
        /\ sp = obs.spBefore - 1

\* C28: a tick executing 00EE at address a while the call stack is empty (the
\* stack pointer is where the constructor put it) leaves pc = a + 2 and the
\* stack pointer as it was; a tick executing 2nnn while the call stack is
\* full (it holds stack_size return addresses) leaves the stack and the stack
\* pointer as they were.
C28_StackErrorsAreRefused ==
    [][(obs'.kind = "tick" /\ IsNumber(pc)) =>
            /\ (IsReturn(obs'.opcode) /\ sp = constructor.sp) =>
                  (pc' = pc + 2 /\ sp' = sp)
            /\ (IsCall(obs'.opcode) /\ sp - constructor.sp >= stack_size) =>
                  (stack' = stack /\ sp' = sp)]_vars

\* C29: a tick executing 00E0 at address a changes the display and the timers
\* only: it ends with pc = a + 2 and leaves memory, the registers, the index
\* register, the stack and the stack pointer as they were (control does not
\* go on into another case).
C29_ClearChangesDisplayOnly ==
    [][(obs'.kind = "tick" /\ obs'.opcode = 224 /\ IsNumber(pc)) =>
            /\ pc' = pc + 2
            /\ memory' = memory /\ vreg' = vreg /\ ireg' = ireg
            /\ stack' = stack /\ sp' = sp]_vars

\* 6A09 FA15 A005 DAA5 220A 00E0 has run: the display is dark, the delay timer
\* has gone on counting, and the register, the index register and the stack
\* are as the earlier instructions left them.
C29_Witness ==
    /\ obs.kind = "tick" /\ obs.opcode = 224 /\ obs.addr = 522 /\ pc = 524
    /\ obs.lit # {} /\ screen = init_screen
    /\ vreg[10] = 9 /\ ireg = 5 /\ sp = 1 /\ stack[1] = 522 /\ dt = 4

\* C30: a tick executing an 8xy_ instruction leaves every memory byte as it
\* was (the font table at 0..79 included), and no register other than
\* register[x] and register[0xF] differs after it.
C30_AluWritesRegistersOnly ==
    [][(obs'.kind = "tick" /\ opFamily(obs'.opcode) = 8 /\ IsNumber(pc)) =>
            /\ memory' = memory
            /\ \A r \in 0..15 :
                   r \notin {opX(obs'.opcode), 15} => vreg'[r] = vreg[r]]_vars

====
